---- MODULE Spec2Model ----
(***************************************************************************)
(* Connect Four with a depth-limited minimax bot (src/src/main.rs).        *)
(* The board is a ROWS x COLS grid of i8 cells, row 0 on top.  The pure    *)
(* functions of ConnectFour and BotPlayer are operators that compute what  *)
(* the code computes, the search threading the working board through the   *)
(* make/unmake steps.                                                      *)
(***************************************************************************)
EXTENDS Integers, Sequences, FiniteSets, TLC

ROWS == 6
COLS == 7

BOT == -1
EMPTY == 0
PLAYER == 1

I32_MIN == -2147483647 - 1
I32_MAX == 2147483647

\* BotPlayer::new: reward is fixed; main builds the bot with max_depth 4.
reward == 100
max_depth == 4

\* Option<usize>: None is the empty sequence, Some(x) is <<x>>.
None == <<>>
Some(x) == <<x>>

max(a, b) == IF a >= b THEN a ELSE b
min(a, b) == IF a <= b THEN a ELSE b

\* ConnectFour::new
NewBoard == [row \in 0..(ROWS - 1) |-> [col \in 0..(COLS - 1) |-> EMPTY]]

\* The range 0..COLS that get_valid_moves filters, as a sequence.
ColRange == [i \in 1..COLS |-> i - 1]

\* get_valid_moves testing the bottom cell of the column instead of the top.
get_valid_moves_bottom(game) ==
    SelectSeq(ColRange, LAMBDA col : game[ROWS - 1][col] = EMPTY)

\* (0..COLS).filter(|&col| self.board[0][col] == EMPTY).collect()
get_valid_moves(game) == SelectSeq(ColRange, LAMBDA col : game[0][col] = EMPTY)

\* check_win without the up-right diagonal test of the third scan.
check_win_no_up_right(game, player) ==
    \/ \E row \in 0..(ROWS - 1) : \E col \in 0..(COLS - 4) :
          /\ game[row][col] = player /\ game[row][col + 1] = player
          /\ game[row][col + 2] = player /\ game[row][col + 3] = player
    \/ \E row \in 0..(ROWS - 4) : \E col \in 0..(COLS - 1) :
          /\ game[row][col] = player /\ game[row + 1][col] = player
          /\ game[row + 2][col] = player /\ game[row + 3][col] = player
    \/ \E row \in 0..(ROWS - 4) : \E col \in 0..(COLS - 4) :
          /\ game[row][col] = player /\ game[row + 1][col + 1] = player
          /\ game[row + 2][col + 2] = player /\ game[row + 3][col + 3] = player

\* The three scans of check_win, each returning at the first window whose
\* four cells (i = 0..3) all hold `player`.
check_win(game, player) ==
    \/ \E row \in 0..(ROWS - 1) : \E col \in 0..(COLS - 4) :
          /\ game[row][col] = player /\ game[row][col + 1] = player
          /\ game[row][col + 2] = player /\ game[row][col + 3] = player
    \/ \E row \in 0..(ROWS - 4) : \E col \in 0..(COLS - 1) :
          /\ game[row][col] = player /\ game[row + 1][col] = player
          /\ game[row + 2][col] = player /\ game[row + 3][col] = player
    \/ \E row \in 0..(ROWS - 4) : \E col \in 0..(COLS - 4) :
          \/ /\ game[row][col] = player /\ game[row + 1][col + 1] = player
             /\ game[row + 2][col + 2] = player /\ game[row + 3][col + 3] = player
          \/ /\ game[row + 3][col] = player /\ game[row + 2][col + 1] = player
             /\ game[row + 1][col + 2] = player /\ game[row][col + 3] = player

\* (0..ROWS).rev().find(|&row| board[row][col] == EMPTY), scanning from `row` up.
RECURSIVE RevFind(_, _, _)
RevFind(game, col, row) ==
    IF row < 0 THEN None
    ELSE IF game[row][col] = EMPTY THEN Some(row)
    ELSE RevFind(game, col, row - 1)

FindRow(game, col) == RevFind(game, col, ROWS - 1)

\* The loop of drop_piece reporting success on a full column too.
RECURSIVE DropLoopAlwaysTrue(_, _, _, _)
DropLoopAlwaysTrue(game, col, piece, row) ==
    IF row < 0 THEN [ok |-> TRUE, game |-> game, panic |-> FALSE]
    ELSE IF game[row][col] = EMPTY
    THEN [ok |-> TRUE, game |-> [game EXCEPT ![row][col] = piece], panic |-> FALSE]
    ELSE DropLoopAlwaysTrue(game, col, piece, row - 1)

\* The loop of drop_piece, for row in (0..ROWS).rev(), from `row` upward.
RECURSIVE DropLoop(_, _, _, _)
DropLoop(game, col, piece, row) ==
    IF row < 0 THEN [ok |-> FALSE, game |-> game, panic |-> FALSE]
    ELSE IF game[row][col] = EMPTY
    THEN [ok |-> TRUE, game |-> [game EXCEPT ![row][col] = piece], panic |-> FALSE]
    ELSE DropLoop(game, col, piece, row - 1)

\* drop_piece scanning the rows without .rev(): the first empty cell from the top.
RECURSIVE DropLoopFromTop(_, _, _, _)
DropLoopFromTop(game, col, piece, row) ==
    IF row >= ROWS THEN [ok |-> FALSE, game |-> game, panic |-> FALSE]
    ELSE IF game[row][col] = EMPTY
    THEN [ok |-> TRUE, game |-> [game EXCEPT ![row][col] = piece], panic |-> FALSE]
    ELSE DropLoopFromTop(game, col, piece, row + 1)

drop_piece_no_rev(game, col, piece) ==
    IF col >= COLS THEN [ok |-> FALSE, game |-> game, panic |-> TRUE]
    ELSE DropLoopFromTop(game, col, piece, 0)

\* drop_piece: the first self.board[row][col] with col >= COLS fails the
\* array bounds check, which panics.
drop_piece(game, col, piece) ==
    IF col >= COLS THEN [ok |-> FALSE, game |-> game, panic |-> TRUE]
    ELSE DropLoop(game, col, piece, ROWS - 1)

\* minimax returns the score, the board as the call leaves it, and whether a
\* beta <= alpha break was taken anywhere below (cut).
RECURSIVE minimax(_, _, _, _, _), MaxLoop(_, _, _, _, _, _), MinLoop(_, _, _, _, _, _)

\* The maximizing loop with the beta <= alpha test placed before the update
\* of max_score: a cut returns the score of the moves before the cutting one.
RECURSIVE MaxLoopCutFirst(_, _, _, _, _, _)
MaxLoopCutFirst(game, moves, depth, alpha, beta, max_score) ==
    IF moves = <<>> THEN [score |-> max_score, game |-> game, cut |-> FALSE]
    ELSE LET col == Head(moves)
             r == FindRow(game, col)
         IN IF r = None THEN MaxLoopCutFirst(game, Tail(moves), depth, alpha, beta, max_score)
            ELSE LET row == r[1]
                     g1 == [game EXCEPT ![row][col] = BOT]
                     sub == IF check_win(g1, BOT)
                            THEN [score |-> reward, game |-> g1, cut |-> FALSE]
                            ELSE minimax(g1, depth - 1, alpha, beta, FALSE)
                     g2 == [sub.game EXCEPT ![row][col] = EMPTY]
                     ms == max(max_score, sub.score)
                     a == max(alpha, sub.score)
                 IN IF beta <= a
                    THEN [score |-> max_score, game |-> g2, cut |-> TRUE]
                    ELSE LET rest == MaxLoopCutFirst(g2, Tail(moves), depth, a, beta, ms)
                         IN [rest EXCEPT !.cut = rest.cut \/ sub.cut]

\* The is_maximizing loop without the undo game.board[row][col] = EMPTY.
RECURSIVE MaxLoopNoUndo(_, _, _, _, _, _)
MaxLoopNoUndo(game, moves, depth, alpha, beta, max_score) ==
    IF moves = <<>> THEN [score |-> max_score, game |-> game, cut |-> FALSE]
    ELSE LET col == Head(moves)
             r == FindRow(game, col)
         IN IF r = None THEN MaxLoopNoUndo(game, Tail(moves), depth, alpha, beta, max_score)
            ELSE LET row == r[1]
                     g1 == [game EXCEPT ![row][col] = BOT]
                     sub == IF check_win(g1, BOT)
                            THEN [score |-> reward, game |-> g1, cut |-> FALSE]
                            ELSE minimax(g1, depth - 1, alpha, beta, FALSE)
                     g2 == sub.game
                     ms == max(max_score, sub.score)
                     a == max(alpha, sub.score)
                 IN IF beta <= a
                    THEN [score |-> ms, game |-> g2, cut |-> TRUE]
                    ELSE LET rest == MaxLoopNoUndo(g2, Tail(moves), depth, a, beta, ms)
                         IN [rest EXCEPT !.cut = rest.cut \/ sub.cut]

\* The is_maximizing loop over the remaining valid_moves.
MaxLoop(game, moves, depth, alpha, beta, max_score) ==
    IF moves = <<>> THEN [score |-> max_score, game |-> game, cut |-> FALSE]
    ELSE LET col == Head(moves)
             r == FindRow(game, col)
         IN IF r = None THEN MaxLoop(game, Tail(moves), depth, alpha, beta, max_score)
            ELSE LET row == r[1]
                     g1 == [game EXCEPT ![row][col] = BOT]
                     sub == IF check_win(g1, BOT)
                            THEN [score |-> reward, game |-> g1, cut |-> FALSE]
                            ELSE minimax(g1, depth - 1, alpha, beta, FALSE)
                     g2 == [sub.game EXCEPT ![row][col] = EMPTY]
                     ms == max(max_score, sub.score)
                     a == max(alpha, sub.score)
                 IN IF beta <= a
                    THEN [score |-> ms, game |-> g2, cut |-> TRUE]
                    ELSE LET rest == MaxLoop(g2, Tail(moves), depth, a, beta, ms)
                         IN [rest EXCEPT !.cut = rest.cut \/ sub.cut]

\* The minimizing loop without the check_win(PLAYER) test: a human
\* four-in-a-row is scored by the recursion like any other move.
RECURSIVE MinLoopNoWinTest(_, _, _, _, _, _)
MinLoopNoWinTest(game, moves, depth, alpha, beta, min_score) ==
    IF moves = <<>> THEN [score |-> min_score, game |-> game, cut |-> FALSE]
    ELSE LET col == Head(moves)
             r == FindRow(game, col)
         IN IF r = None THEN MinLoopNoWinTest(game, Tail(moves), depth, alpha, beta, min_score)
            ELSE LET row == r[1]
                     g1 == [game EXCEPT ![row][col] = PLAYER]
                     sub == minimax(g1, depth - 1, alpha, beta, TRUE)
                     g2 == [sub.game EXCEPT ![row][col] = EMPTY]
                     ms == min(min_score, sub.score)
                     b == min(beta, sub.score)
                 IN IF b <= alpha
                    THEN [score |-> ms, game |-> g2, cut |-> TRUE]
                    ELSE LET rest == MinLoopNoWinTest(g2, Tail(moves), depth, alpha, b, ms)
                         IN [rest EXCEPT !.cut = rest.cut \/ sub.cut]

\* The minimizing loop over the remaining valid_moves.
MinLoop(game, moves, depth, alpha, beta, min_score) ==
    IF moves = <<>> THEN [score |-> min_score, game |-> game, cut |-> FALSE]
    ELSE LET col == Head(moves)
             r == FindRow(game, col)
         IN IF r = None THEN MinLoop(game, Tail(moves), depth, alpha, beta, min_score)
            ELSE LET row == r[1]
                     g1 == [game EXCEPT ![row][col] = PLAYER]
                     sub == IF check_win(g1, PLAYER)
                            THEN [score |-> -reward, game |-> g1, cut |-> FALSE]
                            ELSE minimax(g1, depth - 1, alpha, beta, TRUE)
                     g2 == [sub.game EXCEPT ![row][col] = EMPTY]
                     ms == min(min_score, sub.score)
                     b == min(beta, sub.score)
                 IN IF b <= alpha
                    THEN [score |-> ms, game |-> g2, cut |-> TRUE]
                    ELSE LET rest == MinLoop(g2, Tail(moves), depth, alpha, b, ms)
                         IN [rest EXCEPT !.cut = rest.cut \/ sub.cut]

\* minimax with a static evaluation at the leaves: a board that already
\* holds a four-in-a-row is scored for its winner instead of 0.
minimax_static(game, depth, alpha, beta, is_maximizing) ==
    LET valid_moves == get_valid_moves(game) IN
    IF valid_moves = <<>> \/ depth = 0
    THEN [score |-> IF check_win(game, BOT) THEN reward
                    ELSE IF check_win(game, PLAYER) THEN -reward ELSE 0,
          game |-> game, cut |-> FALSE]
    ELSE IF is_maximizing THEN MaxLoop(game, valid_moves, depth, alpha, beta, I32_MIN)
    ELSE MinLoop(game, valid_moves, depth, alpha, beta, I32_MAX)

minimax(game, depth, alpha, beta, is_maximizing) ==
    LET valid_moves == get_valid_moves(game) IN
    IF valid_moves = <<>> \/ depth = 0 THEN [score |-> 0, game |-> game, cut |-> FALSE]
    ELSE IF is_maximizing THEN MaxLoop(game, valid_moves, depth, alpha, beta, I32_MIN)
    ELSE MinLoop(game, valid_moves, depth, alpha, beta, I32_MAX)

\* The loop of get_best_move keeping the earlier candidates when a higher
\* score turns up: best_moves.clear() is left out.
RECURSIVE BestLoopNoClear(_, _, _, _)
BestLoopNoClear(game_clone, moves, best_score, best_moves) ==
    IF moves = <<>> THEN [best_moves |-> best_moves, game_clone |-> game_clone]
    ELSE LET col == Head(moves)
             r == FindRow(game_clone, col)
         IN IF r = None THEN BestLoopNoClear(game_clone, Tail(moves), best_score, best_moves)
            ELSE LET row == r[1]
                     g1 == [game_clone EXCEPT ![row][col] = BOT]
                     sub == minimax(g1, max_depth, I32_MIN, I32_MAX, FALSE)
                     g2 == [sub.game EXCEPT ![row][col] = EMPTY]
                 IN IF sub.score > best_score
                    THEN BestLoopNoClear(g2, Tail(moves), sub.score, Append(best_moves, col))
                    ELSE IF sub.score = best_score
                    THEN BestLoopNoClear(g2, Tail(moves), best_score, Append(best_moves, col))
                    ELSE BestLoopNoClear(g2, Tail(moves), best_score, best_moves)

\* The loop of get_best_move over the remaining valid moves of the caller's
\* board; game_clone is the working copy.
RECURSIVE BestLoop(_, _, _, _)
BestLoop(game_clone, moves, best_score, best_moves) ==
    IF moves = <<>> THEN [best_moves |-> best_moves, game_clone |-> game_clone]
    ELSE LET col == Head(moves)
             r == FindRow(game_clone, col)
         IN IF r = None THEN BestLoop(game_clone, Tail(moves), best_score, best_moves)
            ELSE LET row == r[1]
                     g1 == [game_clone EXCEPT ![row][col] = BOT]
                     sub == minimax(g1, max_depth, I32_MIN, I32_MAX, FALSE)
                     g2 == [sub.game EXCEPT ![row][col] = EMPTY]
                 IN IF sub.score > best_score
                    THEN BestLoop(g2, Tail(moves), sub.score, <<col>>)
                    ELSE IF sub.score = best_score
                    THEN BestLoop(g2, Tail(moves), best_score, Append(best_moves, col))
                    ELSE BestLoop(g2, Tail(moves), best_score, best_moves)

\* get_best_move up to the random choice: the candidates best_moves, the
\* caller's board and the working copy at return.
get_best_move(game) ==
    LET r == BestLoop(game, get_valid_moves(game), I32_MIN, <<>>)
    IN [best_moves |-> r.best_moves, game |-> game, game_clone |-> r.game_clone]

\* choose falling back on column 0 when there is no candidate.
ChooseOrZero(best_moves) ==
    IF best_moves = <<>> THEN {Some(0)}
    ELSE {Some(best_moves[i]) : i \in 1..Len(best_moves)}

\* best_moves.choose(rng).cloned(): every outcome of the random choice.
Choose(best_moves) ==
    IF best_moves = <<>> THEN {None}
    ELSE {Some(best_moves[i]) : i \in 1..Len(best_moves)}

\* Ok(n) and Err of input.trim().parse::<usize>().
Ok(x) == <<"Ok", x>>
Err == <<"Err">>

\* The decimal numerals of 1, 2, ... a line may hold.
Numerals == <<"1", "2", "3", "4", "5", "6", "7", "8", "9">>

\* input.trim().parse::<usize>(): Ok(n) for the numeral of n, Err otherwise.
parse(line) ==
    IF line = "0" THEN Ok(0)
    ELSE IF \E n \in 1..Len(Numerals) : Numerals[n] = line
    THEN Ok(CHOOSE n \in 1..Len(Numerals) : Numerals[n] = line)
    ELSE Err

\* What col - 1 leaves for col = 0 in a build without overflow checks:
\* usize::MAX.  It is above the integers the model computes with and stands
\* here as the largest of them; all that is asked of it is whether
\* get_valid_moves() contains it.
USIZE_MAX == I32_MAX

\* let col = col - 1 on usize: for col = 0 a build with overflow checks
\* (the dev profile) panics and a build without (the release profile) wraps.
sub_one(col, overflow_checks) ==
    IF col > 0 THEN [panic |-> FALSE, col |-> col - 1]
    ELSE IF overflow_checks THEN [panic |-> TRUE, col |-> col]
    ELSE [panic |-> FALSE, col |-> USIZE_MAX]

\* valid_moves.contains(&col)
contains(valid_moves, col) == \E i \in 1..Len(valid_moves) : valid_moves[i] = col

VARIABLES board, ret, panicked, current_player, input, out

vars == <<board, ret, panicked, current_player, input, out>>

\* main before its loop; `input` is the line read in the current iteration
\* ("" when none was read) and `out` the verdict printed ("" when none was).
Init ==
    /\ board = NewBoard
    /\ ret = [op |-> "new"]
    /\ panicked = FALSE
    /\ current_player = PLAYER
    /\ input = ""
    /\ out = ""

(***************************************************************************)
(* The call sequences explored.  Pieces are dropped one call at a time     *)
(* from the empty board; a call is explored when the board it leaves is in *)
(* the scope of the specification: a few pieces, or one of the full boards *)
(* DrawScript, DiagScript, AntiScript filled column by column so far.      *)
(***************************************************************************)

\* SpecBoard: the number of pieces dropped freely, in any column.
MaxPieces == 4
\* SpecBot: the number of PLAYER pieces, dropped in HumanCols.
MaxHuman == 4
\* SpecBot: the number of BOT pieces, dropped in BotCols.
MaxBot == 3
\* The largest column index passed to drop_piece (COLS and above are out of range).
MaxColArg == 7
\* The largest depth passed to a direct minimax call.
MaxCallDepth == 2

HumanCols == {2, 3, 4}
BotCols == {0}

Pieces == {PLAYER, BOT}
Cells == (0..(ROWS - 1)) \X (0..(COLS - 1))
Windows == {<<I32_MIN, I32_MAX>>, <<-reward, reward>>, <<0, 0>>}

Count(b, piece) == Cardinality({rc \in Cells : b[rc[1]][rc[2]] = piece})

\* A full board without a four-in-a-row: runs of two down the columns,
\* alternating along the rows.
DrawScript == [row \in 0..(ROWS - 1) |-> [col \in 0..(COLS - 1) |->
                 IF ((row \div 2) + col) % 2 = 0 THEN PLAYER ELSE BOT]]

\* Only the down-right diagonals hold one side's pieces four in a line.
DiagScript == [row \in 0..(ROWS - 1) |-> [col \in 0..(COLS - 1) |->
                 IF ((row - col + COLS) \div 2) % 2 = 0 THEN PLAYER ELSE BOT]]

\* Only the up-right diagonals hold one side's pieces four in a line.
AntiScript == [row \in 0..(ROWS - 1) |-> [col \in 0..(COLS - 1) |->
                 IF ((row + col) \div 2) % 2 = 0 THEN PLAYER ELSE BOT]]

\* b is `script` filled bottom-up, column by column from column 0, so far.
FilledInOrder(b, script) ==
    /\ \A rc \in Cells : b[rc[1]][rc[2]] \in {EMPTY, script[rc[1]][rc[2]]}
    /\ \A row \in 1..(ROWS - 1), col \in 0..(COLS - 1) :
          b[row][col] = EMPTY => b[row - 1][col] = EMPTY
    /\ \A col \in 1..(COLS - 1) : b[ROWS - 1][col] # EMPTY => b[0][col - 1] # EMPTY

ScopeBoard(b) ==
    \/ Cardinality({rc \in Cells : b[rc[1]][rc[2]] # EMPTY}) <= MaxPieces
    \/ FilledInOrder(b, DrawScript)
    \/ FilledInOrder(b, DiagScript)
    \/ FilledInOrder(b, AntiScript)

ScopeBot(b) ==
    \/ /\ \A rc \in Cells :
             /\ b[rc[1]][rc[2]] = PLAYER => rc[2] \in HumanCols
             /\ b[rc[1]][rc[2]] = BOT => rc[2] \in BotCols
       /\ Count(b, PLAYER) <= MaxHuman
       /\ Count(b, BOT) <= MaxBot
    \/ FilledInOrder(b, DrawScript)

\* game.drop_piece(col, piece); a panic ends the program.
Drop(col, piece) ==
    /\ ~panicked
    /\ \E d \in {drop_piece(board, col, piece)} :
       /\ board' = d.game
       /\ panicked' = d.panic
       /\ ret' = IF d.panic THEN [op |-> "panic"]
                 ELSE [op |-> "drop_piece", ok |-> d.ok]

BoardDrop == \E col \in 0..MaxColArg, piece \in Pieces :
    Drop(col, piece) /\ ScopeBoard(board') /\ UNCHANGED <<current_player, input, out>>

BotDrop == \E col \in 0..MaxColArg, piece \in Pieces :
    Drop(col, piece) /\ ScopeBot(board') /\ UNCHANGED <<current_player, input, out>>

\* game.get_valid_moves()
GetValidMoves ==
    /\ ~panicked
    /\ ret' = [op |-> "get_valid_moves", result |-> get_valid_moves(board)]
    /\ UNCHANGED <<board, panicked, current_player, input, out>>

\* game.check_win(player)
CheckWin == \E player \in Pieces :
    /\ ~panicked
    /\ ret' = [op |-> "check_win", player |-> player, result |-> check_win(board, player)]
    /\ UNCHANGED <<board, panicked, current_player, input, out>>

\* bot.get_best_move(&game), asked of the position the last drop left (the
\* function is pure up to the random choice, so it is not asked twice).
GetBestMove ==
    /\ ~panicked
    /\ ret.op \in {"new", "drop_piece"}
    /\ \E g \in {get_best_move(board)} : \E c \in Choose(g.best_moves) :
          /\ board' = g.game
          /\ ret' = [op |-> "get_best_move", result |-> c,
                     best_moves |-> g.best_moves,
                     restored |-> (g.game_clone = board)]
    /\ UNCHANGED <<panicked, current_player, input, out>>

\* bot.minimax(&mut game, depth, alpha, beta, is_maximizing) on the live
\* board, asked of the position the last drop left.
CallMinimax == \E depth \in 0..MaxCallDepth, w \in Windows, is_maximizing \in BOOLEAN :
    /\ ~panicked
    /\ ret.op \in {"new", "drop_piece"}
    /\ \E m \in {minimax(board, depth, w[1], w[2], is_maximizing)} :
       /\ board' = m.game
       /\ ret' = [op |-> "minimax", depth |-> depth, alpha |-> w[1], beta |-> w[2],
                  is_maximizing |-> is_maximizing, score |-> m.score, cut |-> m.cut]
    /\ UNCHANGED <<panicked, current_player, input, out>>

NextBoard == BoardDrop \/ GetValidMoves \/ CheckWin
SpecBoard == Init /\ [][NextBoard]_vars

NextBot == BotDrop \/ GetBestMove \/ CallMinimax
SpecBot == Init /\ [][NextBot]_vars

(***************************************************************************)
(* main: one action per way through an iteration of its loop.  The lines   *)
(* the human types and the outcomes of the random choice are drawn from    *)
(* small sets: while fewer than MaxFree pieces are on the board the human  *)
(* may play a column of FreeCols and the choice may fall on any candidate; *)
(* all along the human may play the lowest legal column and type lines     *)
(* that are refused, and the choice may fall on the first candidate.       *)
(***************************************************************************)

\* The number of pieces up to which play is free as described above.
MaxFree == 2

FreeCols == {5}

\* Lines that do not parse as usize.
NotNumbers == {"abc", "-1"}

Placed(b) == Cardinality({rc \in Cells : b[rc[1]][rc[2]] # EMPTY})

\* The lines typed on board b: lines that do not parse, "0", the numerals
\* of columns that are full or above 7, the numeral of the lowest legal
\* column and, in free play, of the legal columns of FreeCols.
HumanLines(b) ==
    NotNumbers \cup {"0"}
    \cup {Numerals[n] : n \in {n \in 1..(COLS + 1) : n > COLS \/ b[0][n - 1] # EMPTY}}
    \cup {Numerals[n] : n \in {n \in 1..COLS :
              /\ b[0][n - 1] = EMPTY
              /\ \/ \A m \in 1..(n - 1) : b[0][m - 1] # EMPTY
                 \/ Placed(b) < MaxFree /\ (n - 1) \in FreeCols}}

\* The candidates the random choice may fall on, on board b.
Drawn(b, best_moves) ==
    IF Placed(b) < MaxFree \/ best_moves = <<>> THEN best_moves ELSE <<best_moves[1]>>

\* The loop is running: no break, no panic.
Running == ~panicked /\ out = ""

\* game.check_win(BOT) || game.check_win(PLAYER), looking at the bot only.
GameWonBotOnly == check_win(board, BOT)

\* game.check_win(BOT) || game.check_win(PLAYER), looking at the human only.
GameWonHumanOnly == check_win(board, PLAYER)

\* game.check_win(BOT) || game.check_win(PLAYER)
GameWon == check_win(board, BOT) \/ check_win(board, PLAYER)

\* game.get_valid_moves().is_empty(), taken for false.
BoardFullNever == FALSE

\* game.get_valid_moves().is_empty(), looking at the bottom row.
BoardFullBottom == \A col \in 0..(COLS - 1) : board[ROWS - 1][col] # EMPTY

\* game.get_valid_moves().is_empty()
BoardFull == get_valid_moves(board) = <<>>

\* println!("Game over!"); break
GameOver ==
    /\ Running
    /\ GameWon
    /\ out' = "Game over!"
    /\ UNCHANGED <<board, ret, panicked, current_player, input>>

\* println!("Draw!"); break
Draw ==
    /\ Running
    /\ ~GameWon
    /\ BoardFull
    /\ out' = "Draw!"
    /\ UNCHANGED <<board, ret, panicked, current_player, input>>

\* The bot's iteration leaving current_player as it is.
BotTurnKeepsTurn ==
    /\ Running
    /\ ~GameWon
    /\ ~BoardFull
    /\ current_player = BOT
    /\ \E g \in {get_best_move(board)} : \E c \in Choose(Drawn(board, g.best_moves)) :
          IF c # None THEN Drop(c[1], BOT) ELSE UNCHANGED <<board, ret, panicked>>
    /\ UNCHANGED <<current_player, out>>
    /\ input' = ""

\* The iteration with current_player == BOT.
BotTurn ==
    /\ Running
    /\ ~GameWon
    /\ ~BoardFull
    /\ current_player = BOT
    /\ \E g \in {get_best_move(board)} : \E c \in Choose(Drawn(board, g.best_moves)) :
          IF c # None THEN Drop(c[1], BOT) ELSE UNCHANGED <<board, ret, panicked>>
    /\ current_player' = PLAYER
    /\ input' = ""
    /\ out' = out

\* What the iteration does with the line read, placing the piece without
\* asking get_valid_moves().
ReadLineNoCheck(line, overflow_checks) ==
    /\ input' = line
    /\ out' = out
    /\ \E p \in {parse(line)} :
          IF p = Err THEN UNCHANGED <<board, ret, panicked, current_player>>
          ELSE \E s \in {sub_one(p[2], overflow_checks)} :
                  IF s.panic
                  THEN panicked' = TRUE /\ UNCHANGED <<board, ret, current_player>>
                  ELSE Drop(s.col, PLAYER) /\ current_player' = BOT

\* What the iteration does with the line read.
ReadLine(line, overflow_checks) ==
    /\ input' = line
    /\ out' = out
    /\ \E p \in {parse(line)} :
          IF p = Err THEN UNCHANGED <<board, ret, panicked, current_player>>
          ELSE \E s \in {sub_one(p[2], overflow_checks)} :
                  IF s.panic
                  THEN panicked' = TRUE /\ UNCHANGED <<board, ret, current_player>>
                  ELSE IF contains(get_valid_moves(board), s.col)
                  THEN Drop(s.col, PLAYER) /\ current_player' = BOT
                  ELSE UNCHANGED <<board, ret, panicked, current_player>>

\* The iteration with current_player == PLAYER.
HumanTurn == \E line \in HumanLines(board), overflow_checks \in BOOLEAN :
    /\ Running
    /\ ~GameWon
    /\ ~BoardFull
    /\ current_player = PLAYER
    /\ ReadLine(line, overflow_checks)

Next == GameOver \/ Draw \/ BotTurn \/ HumanTurn
Spec == Init /\ [][Next]_vars

\* The condition under which the bot's iteration is the one executed.
BotGuard == Running /\ ~GameWon /\ ~BoardFull /\ current_player = BOT

\* The program keeps running: an iteration that needs no line from the
\* human is eventually executed.  Nothing is assumed of the human here.
\* The last conjunct is WF_vars(BotTurn) with ENABLED <<BotTurn>>_vars
\* written out as BotGuard, to which it is equivalent: get_best_move and
\* the random choice always return.
SpecFair ==
    /\ Spec
    /\ WF_vars(GameOver)
    /\ WF_vars(Draw)
    /\ (<>[]BotGuard => []<><<BotTurn>>_vars)

(***************************************************************************)
(* The rules of the game, stated on their own: what the properties below   *)
(* compare the code's results with.                                        *)
(***************************************************************************)

Dirs == {<<0, 1>>, <<1, 0>>, <<1, 1>>, <<-1, 1>>}

\* Four cells in a straight line, inside the grid, all holding `side`.
HasFour(b, side) ==
    \E rc \in Cells, d \in Dirs : \A i \in 0..3 :
        /\ (rc[1] + i * d[1]) \in 0..(ROWS - 1)
        /\ (rc[2] + i * d[2]) \in 0..(COLS - 1)
        /\ b[rc[1] + i * d[1]][rc[2] + i * d[2]] = side

\* The columns with an empty top cell.
Legal(b) == {col \in 0..(COLS - 1) : b[0][col] = EMPTY}

\* The lowest empty cell of a column that has one.
Lowest(b, col) == CHOOSE row \in 0..(ROWS - 1) :
    /\ b[row][col] = EMPTY
    /\ \A below \in (row + 1)..(ROWS - 1) : b[below][col] # EMPTY

\* The board after `side` plays the legal column col.
After(b, col, side) == [b EXCEPT ![Lowest(b, col)][col] = side]

\* The legal columns in which a piece of `side` completes a four-in-a-row.
WinCols(b, side) == {col \in Legal(b) : HasFour(After(b, col, side), side)}

(***************************************************************************)
(* Board State: properties of SpecBoard.                                   *)
(***************************************************************************)

\* C5 (gravity): in every column the non-empty cells are one run from the
\* bottom row upward: no empty cell lies below a non-empty cell, after any
\* sequence of drop_piece calls, successful or not.
C5_Gravity ==
    \A col \in 0..(COLS - 1), row \in 0..(ROWS - 2) :
        board[row][col] # EMPTY => board[row + 1][col] # EMPTY

\* A drop into a full column has failed with pieces stacked below the top.
C5_Witness ==
    /\ ret = [op |-> "drop_piece", ok |-> FALSE]
    /\ \E col \in 0..(COLS - 1) : board[0][col] # EMPTY /\ board[ROWS - 1][col] # EMPTY
    /\ \E col \in 0..(COLS - 1) : board[ROWS - 1][col] = EMPTY

\* What C6 says of a call drop_piece(col, piece) with col in 0..6.
DropPost(col, piece) ==
    IF \E row \in 0..(ROWS - 1) : board[row][col] = EMPTY
    THEN /\ ret' = [op |-> "drop_piece", ok |-> TRUE]
         /\ board'[Lowest(board, col)][col] = piece
         /\ \A rc \in Cells :
               rc # <<Lowest(board, col), col>> => board'[rc[1]][rc[2]] = board[rc[1]][rc[2]]
    ELSE /\ ret' = [op |-> "drop_piece", ok |-> FALSE]
         /\ board' = board

\* C6: every step that is a call drop_piece(col, piece) with col in 0..6
\* changes exactly the lowest empty cell of the column to `piece` and
\* returns true, or, the column being full, returns false and changes no cell.
C6_DropPiece ==
    [][\A col \in 0..(COLS - 1), piece \in Pieces : Drop(col, piece) => DropPost(col, piece)]_vars

\* A drop has succeeded on top of other pieces, next to a full column.
C6_Witness ==
    /\ ret = [op |-> "drop_piece", ok |-> TRUE]
    /\ \E col \in 0..(COLS - 1) : board[0][col] # EMPTY
    /\ \E col \in 0..(COLS - 1) : board[ROWS - 2][col] # EMPTY /\ board[0][col] = EMPTY

\* C7, as claimed: every step that is a call drop_piece(col, piece) with
\* col >= 7 returns false, leaves the board unchanged and does not abort.
C7_OutOfRangeFails ==
    [][\A col \in COLS..MaxColArg, piece \in Pieces :
          Drop(col, piece) =>
              /\ ~panicked'
              /\ ret' = [op |-> "drop_piece", ok |-> FALSE]
              /\ board' = board]_vars

\* C8: get_valid_moves returns exactly the columns whose top cell is EMPTY,
\* each once and in strictly ascending order; a column holding 6 pieces is
\* absent; the result is empty exactly when all 7 top cells are non-empty.
C8_ValidMoves ==
    ret.op = "get_valid_moves" =>
        /\ {ret.result[i] : i \in 1..Len(ret.result)} = Legal(board)
        /\ \A i \in 1..(Len(ret.result) - 1) : ret.result[i] < ret.result[i + 1]
        /\ \A col \in 0..(COLS - 1) :
              (\A row \in 0..(ROWS - 1) : board[row][col] # EMPTY) =>
                  \A i \in 1..Len(ret.result) : ret.result[i] # col
        /\ (ret.result = <<>>) <=> (\A col \in 0..(COLS - 1) : board[0][col] # EMPTY)

\* get_valid_moves has returned the empty list (every top cell is taken).
C8_Witness ==
    /\ ret.op = "get_valid_moves"
    /\ ret.result = <<>>

\* get_valid_moves has returned a list that leaves out the full column 0.
C8_WitnessPartial ==
    /\ ret.op = "get_valid_moves"
    /\ Len(ret.result) \in 1..(COLS - 1)
    /\ ret.result[1] # 0

\* C9: check_win(side) is true exactly when four cells in a straight line
\* inside the grid all hold that side's piece, and the call leaves the
\* board unchanged (on the empty board it answers false for both sides).
C9_CheckWin ==
    [][ret'.op = "check_win" =>
          /\ ret'.result <=> HasFour(board, ret'.player)
          /\ board' = board
          /\ board = NewBoard => ~ret'.result]_vars

\* check_win has answered true on a board whose only fours run up-right.
C9_Witness ==
    /\ ret.op = "check_win"
    /\ ret.result
    /\ FilledInOrder(board, AntiScript)

\* check_win has answered on the empty board.
C9_WitnessEmpty ==
    /\ ret.op = "check_win"
    /\ board = NewBoard

(***************************************************************************)
(* Search Engine: properties of SpecBot.                                   *)
(***************************************************************************)

NoFour(b) == ~HasFour(b, PLAYER) /\ ~HasFour(b, BOT)

\* The topmost piece of a column that holds one.
Top(b, col) == CHOOSE row \in 0..(ROWS - 1) :
    /\ b[row][col] # EMPTY
    /\ \A above \in 0..(row - 1) : b[above][col] = EMPTY

\* b is reached from the empty board by legal play: the human first, the
\* sides alternating, no move made on a board that holds a four-in-a-row.
RECURSIVE LegalPlay(_)
LegalPlay(b) ==
    LET h == Count(b, PLAYER)
        k == Count(b, BOT)
        last == IF h = k THEN BOT ELSE PLAYER
    IN \/ h + k = 0
       \/ /\ h - k \in {0, 1}
          /\ \E col \in 0..(COLS - 1) :
                /\ b[ROWS - 1][col] # EMPTY
                /\ b[Top(b, col)][col] = last
                /\ NoFour([b EXCEPT ![Top(b, col)][col] = EMPTY])
                /\ LegalPlay([b EXCEPT ![Top(b, col)][col] = EMPTY])

\* A position of a game in progress in which the bot is to move.
BotToMove(b) ==
    /\ Count(b, PLAYER) = Count(b, BOT) + 1
    /\ NoFour(b)
    /\ LegalPlay(b)

\* With the human to move on b and `plies` plies left, the human completes
\* a four-in-a-row whatever the bot plays; the game ends at a bot four.
RECURSIVE HumanForces(_, _)
HumanForces(b, plies) ==
    /\ plies >= 1
    /\ \E col \in Legal(b) :
          \/ HasFour(After(b, col, PLAYER), PLAYER)
          \/ /\ plies >= 3
             /\ Legal(After(b, col, PLAYER)) # {}
             /\ \A reply \in Legal(After(b, col, PLAYER)) :
                   /\ ~HasFour(After(After(b, col, PLAYER), reply, BOT), BOT)
                   /\ HumanForces(After(After(b, col, PLAYER), reply, BOT), plies - 2)

\* After the bot plays col the human cannot complete a four-in-a-row within
\* the horizon: the move wins at once, or the human has no forced win.
Safe(b, col) ==
    \/ HasFour(After(b, col, BOT), BOT)
    \/ ~HumanForces(After(b, col, BOT), max_depth)

\* After the bot plays col the game goes on and the human has a column that
\* completes a four-in-a-row on the very next move.
LosesNext(b, col) ==
    /\ ~HasFour(After(b, col, BOT), BOT)
    /\ WinCols(After(b, col, BOT), PLAYER) # {}

\* C1, as claimed: on a board reached by legal play with the bot to move
\* and a column that completes a bot four-in-a-row, get_best_move returns
\* a column that completes a bot four-in-a-row.
C1_TerminalPreference ==
    (/\ ret.op = "get_best_move"
     /\ WinCols(board, BOT) # {}
     /\ BotToMove(board))
        => (ret.result # None /\ ret.result[1] \in WinCols(board, BOT))

\* Human pieces at rows 5, 4, 3 of column 3 on an otherwise empty board.
ThreeInColumn3 ==
    [NewBoard EXCEPT ![ROWS - 1][3] = PLAYER, ![ROWS - 2][3] = PLAYER, ![ROWS - 3][3] = PLAYER]

\* The case of C2: no four on the board, no winning column for the bot,
\* col the human's only winning column, and no forced human win within the
\* horizon once the bot has played col.
MustBlock(b, col) ==
    /\ NoFour(b)
    /\ WinCols(b, BOT) = {}
    /\ WinCols(b, PLAYER) = {col}
    /\ ~HumanForces(After(b, col, BOT), max_depth)

\* C2 (blocking): in the case MustBlock(board, col), get_best_move returns
\* col, whatever the random choice; on ThreeInColumn3 it returns column 3.
C2_Blocking ==
    ret.op = "get_best_move" =>
        /\ \A col \in 0..(COLS - 1) : MustBlock(board, col) => ret.result = Some(col)
        /\ board = ThreeInColumn3 => ret.result = Some(3)

\* get_best_move has answered on ThreeInColumn3, which is a case of MustBlock.
C2_Witness ==
    /\ ret.op = "get_best_move"
    /\ board = ThreeInColumn3
    /\ MustBlock(board, 3)

\* A second case: the block is needed on a board that holds bot pieces too.
C2_WitnessMixed ==
    /\ ret.op = "get_best_move"
    /\ Count(board, BOT) >= 2
    /\ \E col \in 0..(COLS - 1) : MustBlock(board, col)

\* C3, as claimed: on a board reached by legal play with the bot to move
\* that has a Safe column, get_best_move does not return a column after
\* which the human completes a four-in-a-row on the very next move.
C3_LossAvoidance ==
    (/\ ret.op = "get_best_move"
     /\ BotToMove(board)
     /\ \E col \in Legal(board) : Safe(board, col))
        => (ret.result # None /\ ~LosesNext(board, ret.result[1]))

\* C4 (make/unmake purity): a minimax call leaves the board it was given
\* cell for cell as it was, also when a beta <= alpha break cut the loop;
\* get_best_move leaves the caller's board as it was, and its working copy
\* is restored too.
C4_Purity ==
    [][/\ ret'.op = "minimax" => board' = board
       /\ ret'.op = "get_best_move" => (board' = board /\ ret'.restored)]_vars

\* A minimax call of the largest depth has returned after a cut, on a board
\* with pieces of both sides.
C4_Witness ==
    /\ ret.op = "minimax"
    /\ ret.cut
    /\ ret.depth = MaxCallDepth
    /\ Count(board, BOT) >= 1 /\ Count(board, PLAYER) >= 1

\* C10: get_best_move returns None exactly when the board has no legal
\* move, and a column it returns is in 0..6 with an empty top cell.
C10_MoveOrNone ==
    ret.op = "get_best_move" =>
        /\ (ret.result = None) <=> (Legal(board) = {})
        /\ ret.result # None => ret.result[1] \in Legal(board)

\* get_best_move has returned None (on the full board).
C10_Witness ==
    /\ ret.op = "get_best_move"
    /\ ret.result = None

\* get_best_move has returned a column of a board with a full column.
C10_WitnessSome ==
    /\ ret.op = "get_best_move"
    /\ ret.result # None
    /\ Legal(board) # 0..(COLS - 1)

\* The score the search gives a legal column: minimax on the board after a
\* bot piece is dropped there, at depth max_depth with the window
\* (i32::MIN, i32::MAX) and the human to move.
Score(b, col) == minimax(After(b, col, BOT), max_depth, I32_MIN, I32_MAX, FALSE).score

\* The legal columns whose score is the largest among the legal columns.
MaxScoreCols(b) ==
    UNION {{col \in Legal(b) : \A other \in Legal(b) : s[other] <= s[col]} :
              s \in {[col \in Legal(b) |-> Score(b, col)]}}

\* C11 (maximum-score selection): the columns get_best_move can return are
\* exactly the legal columns of maximal score: the column returned is one of
\* the candidates the random choice draws from, never a lower-scoring
\* column, and the candidates are all the columns of maximal score.  The
\* candidates are the same whatever the choice, so they are compared with
\* the maximal columns in the outcome that picks the first of them.
C11_MaxScoreSelection ==
    (ret.op = "get_best_move" /\ ret.best_moves # <<>>) =>
        /\ \E i \in 1..Len(ret.best_moves) : ret.result = Some(ret.best_moves[i])
        /\ \A i, j \in 1..Len(ret.best_moves) : i < j => ret.best_moves[i] < ret.best_moves[j]
        /\ ret.result = Some(ret.best_moves[1]) =>
               {ret.best_moves[i] : i \in 1..Len(ret.best_moves)} = MaxScoreCols(board)

\* get_best_move has returned the last of two or more candidates while a
\* legal column of lower score was left out.
C11_Witness ==
    /\ ret.op = "get_best_move"
    /\ Len(ret.best_moves) >= 2
    /\ ret.result = Some(ret.best_moves[Len(ret.best_moves)])
    /\ Len(ret.best_moves) < Cardinality(Legal(board))

\* The depth-limited minimax of the search without the beta <= alpha cut:
\* every legal column of every node is scored.
RECURSIVE PlainMinimax(_, _, _)
PlainMinimax(b, depth, is_maximizing) ==
    IF Legal(b) = {} \/ depth = 0 THEN 0
    ELSE IF is_maximizing
    THEN LET scores == {IF check_win(After(b, col, BOT), BOT) THEN reward
                        ELSE PlainMinimax(After(b, col, BOT), depth - 1, FALSE) :
                            col \in Legal(b)}
         IN CHOOSE x \in scores : \A y \in scores : y <= x
    ELSE LET scores == {IF check_win(After(b, col, PLAYER), PLAYER) THEN -reward
                        ELSE PlainMinimax(After(b, col, PLAYER), depth - 1, TRUE) :
                            col \in Legal(b)}
         IN CHOOSE x \in scores : \A y \in scores : x <= y

\* C12 (pruning equivalence): a minimax call with the window
\* (i32::MIN, i32::MAX), at any depth and for either side to move, returns
\* the score of the same search without the cut.
C12_PruningEquivalence ==
    (ret.op = "minimax" /\ ret.alpha = I32_MIN /\ ret.beta = I32_MAX) =>
        ret.score = PlainMinimax(board, ret.depth, ret.is_maximizing)

\* A full-window call of the largest depth has cut a loop below the root
\* and returned a score other than 0.
C12_Witness ==
    /\ ret.op = "minimax"
    /\ ret.alpha = I32_MIN /\ ret.beta = I32_MAX
    /\ ret.depth = MaxCallDepth
    /\ ret.cut
    /\ ret.score # 0

\* C20 (score range): every minimax call, whatever the window, returns
\* -reward, 0 or +reward, never the sentinels i32::MIN and i32::MAX, and it
\* returns 0 whenever depth is 0 or the board has no legal move, also on a
\* board that already holds a four-in-a-row.
C20_ScoreRange ==
    ret.op = "minimax" =>
        /\ ret.score \in {-reward, 0, reward}
        /\ ret.score \notin {I32_MIN, I32_MAX}
        /\ (ret.depth = 0 \/ Legal(board) = {}) => ret.score = 0

\* A call with depth 0 has returned on a board that holds a human four.
C20_Witness ==
    /\ ret.op = "minimax"
    /\ ret.depth = 0
    /\ HasFour(board, PLAYER)

\* A call with depth above 0 has returned on a board without a legal move.
C20_WitnessFull ==
    /\ ret.op = "minimax"
    /\ ret.depth > 0
    /\ Legal(board) = {}

\* A call with the window (0, 0) has returned a score other than 0.
C20_WitnessNarrow ==
    /\ ret.op = "minimax"
    /\ ret.alpha = 0 /\ ret.beta = 0
    /\ ret.score # 0

(***************************************************************************)
(* Driver: properties of Spec, the loop of main.                           *)
(***************************************************************************)

Verdicts == {"Game over!", "Draw!"}

\* A step of the iteration that reads a line from the human: the human is
\* to move and no verdict is printed.
HumanStep == current_player = PLAYER /\ out = "" /\ out' = ""

\* A step of the bot's iteration: the bot is to move and no verdict is printed.
BotStep == current_player = BOT /\ out = "" /\ out' = ""

\* The numbers a line is the decimal numeral of, from 1 up.
Entered(line) == {n \in 1..Len(Numerals) : Numerals[n] = line}

\* C13 (driver stop condition): from a board that holds a four-in-a-row or
\* has no legal move, the only step the loop takes prints a verdict and
\* places no piece; after a verdict the loop takes no step at all.
C13_StopCondition ==
    [][/\ out = ""
       /\ (HasFour(board, PLAYER) \/ HasFour(board, BOT) \/ Legal(board) = {}) =>
              (board' = board /\ out' \in Verdicts)]_vars

\* The loop has stopped on a human four with legal moves left, right after
\* the line that placed it.
C13_Witness ==
    /\ out = "Game over!"
    /\ HasFour(board, PLAYER)
    /\ Legal(board) # {}
    /\ input # ""

HumanWaits ==
    /\ current_player = PLAYER
    /\ out = ""
    /\ ~GameWon
    /\ Legal(board) # {}

\* C15 (session termination): in a run in which every turn of the human
\* ends with a legal column entered (the turn passes to the bot), a verdict
\* is eventually printed, with at most 42 pieces on the board.  A run that
\* stays on the bot's turn for ever is such a run without a verdict, so
\* there is none.
C15_Termination ==
    ([](HumanWaits => <>(current_player = BOT))) =>
        <>(out \in Verdicts /\ Placed(board) <= ROWS * COLS)

\* A game played past the free opening has ended on a bot four.
C15_Witness ==
    /\ out = "Game over!"
    /\ HasFour(board, BOT)
    /\ Placed(board) > 2 * MaxFree

\* C16 (single winner): in every state of the loop check_win(PLAYER) and
\* check_win(BOT) are not both true.
C16_SingleWinner == ~(check_win(board, PLAYER) /\ check_win(board, BOT))

\* The loop has reached a board on which check_win is true for the human only.
C16_Witness ==
    /\ check_win(board, PLAYER)
    /\ ~check_win(board, BOT)
    /\ current_player = BOT

\* C17 (human input validation): a step that reads a line places a human
\* piece, in the column entered, exactly when the number entered minus one
\* is a legal column; for every other line the board is unchanged, the turn
\* stays with the human and drop_piece is not called.
C17_InputValidation ==
    [][HumanStep =>
          IF \E n \in Entered(input') : (n - 1) \in Legal(board)
          THEN /\ \A n \in Entered(input') : board' = After(board, n - 1, PLAYER)
               /\ current_player' = BOT
               /\ ret' = [op |-> "drop_piece", ok |-> TRUE]
          ELSE /\ board' = board
               /\ current_player' = PLAYER
               /\ ret' = ret]_vars

\* The numeral of a full column has been read and refused.
C17_Witness ==
    /\ HumanWaits
    /\ \E n \in Entered(input) : n <= COLS /\ board[0][n - 1] # EMPTY

\* A line that is no number, and the numeral of 8, have been read and refused.
C17_WitnessOther ==
    /\ HumanWaits
    /\ ~panicked
    /\ input \in NotNumbers \cup {Numerals[COLS + 1]}

\* C18 (turn alternation): the human's pieces are as many as the bot's on
\* the human's turn and one more on the bot's turn, never anything else, and
\* every turn of the bot places exactly one bot piece.
C18_TurnAlternation ==
    /\ [](/\ Count(board, PLAYER) - Count(board, BOT) \in {0, 1}
          /\ (Count(board, PLAYER) - Count(board, BOT) = 0) <=> (current_player = PLAYER)
          /\ (Count(board, PLAYER) - Count(board, BOT) = 1) <=> (current_player = BOT))
    /\ [][BotStep =>
             /\ Count(board', BOT) = Count(board, BOT) + 1
             /\ Count(board', PLAYER) = Count(board, PLAYER)
             /\ current_player' = PLAYER]_vars

\* The bot has taken a turn past the free opening and the human is to move.
C18_Witness ==
    /\ current_player = PLAYER
    /\ out = ""
    /\ Count(board, BOT) > MaxFree

\* C19, as claimed: a step that reads the numeral of a number n, 0
\* included, does not abort, and for "0" it leaves the board and the turn
\* as they were.
C19_InputArithmetic ==
    [][(HumanStep /\ (input' = "0" \/ Entered(input') # {})) =>
          /\ ~panicked'
          /\ input' = "0" => (board' = board /\ current_player' = current_player)]_vars

====
